---- MODULE Spec2Model ----
(***************************************************************************)
(* Model of SemanticMemoryIntegration (Paw): the history synchronizer and  *)
(* its cursor, the enrichment and storage event handlers, the memory       *)
(* client's four remote operations and the text sanitizer.                 *)
(*                                                                         *)
(* Text is a sequence of tokens.  A token is one lexical unit that the     *)
(* regular expressions of cleanMessageContent treat as a whole: a word, a  *)
(* newline, a marker or a tag.  Transcript indices are the 0-based indices *)
(* of the source; history[i] of the source is At(h, i) here.               *)
(***************************************************************************)
EXTENDS Integers, Sequences, FiniteSets, TLC

\* ------------------------------------------------------------------ bounds
MaxHistory == 4
MaxInFlight == 2
MaxTextLen == 4
MaxBlocks == 3
MaxSlice == 7

\* --------------------------------------------------------------- constants
semanticMemoryServerName == "semantic-memory"
OwnTaskId == "task-1"
OtherTaskId == "task-2"
TaskIds == {OwnTaskId, OtherTaskId}

\* ------------------------------------------------------------------ tokens
NL == "nl"
Word == "w"
MemWord == "m"
EnvOpen == "<environment_details>"
EnvClose == "</environment_details>"
RecallOpen == "[Recalled Memories]"
RecallClose == "[/Recalled Memories]"
\* the two halves of an opening recall marker that other text separates
RecallHead == "[Recalled Mem"
RecallTail == "ories]"
DiffOpen == "<<<<<<< SEARCH"
DiffClose == ">>>>>>> REPLACE"
CompletionOpen == "<attempt_completion>"
CompletionClose == "</attempt_completion>"
FollowupOpen == "<ask_followup_question>"
FollowupClose == "</ask_followup_question>"
UserMessageOpen == "<user_message>"
UserMessageClose == "</user_message>"
ResultOpen == "<result>"
ResultClose == "</result>"
SelfClosingTag == "<br/>"
UnknownOpen == "<thinking>"
UnknownClose == "</thinking>"

blockToolTags == << <<FollowupOpen, FollowupClose>>, <<CompletionOpen, CompletionClose>> >>
toolTagsToRemove == {ResultOpen, ResultClose}
\* every token matched by /<[/!]?[a-zA-Z0-9_:]+[^>]*>/
TagTokens ==
    {EnvOpen, EnvClose, CompletionOpen, CompletionClose, FollowupOpen, FollowupClose,
     UserMessageOpen, UserMessageClose, ResultOpen, ResultClose, SelfClosingTag,
     UnknownOpen, UnknownClose}

\* ------------------------------------------------------- sequence helpers
At(s, i) == s[i + 1]

Includes(s, tok) == \E k \in 1..Len(s) : s[k] = tok

RECURSIVE IndexFrom(_, _, _)
\* least k >= from with s[k] = tok, or 0
IndexFrom(s, tok, from) ==
    IF from > Len(s) THEN 0
    ELSE IF s[from] = tok THEN from
    ELSE IndexFrom(s, tok, from + 1)

RECURSIVE FilterOut(_, _)
FilterOut(s, toks) ==
    IF s = <<>> THEN <<>>
    ELSE IF Head(s) \in toks THEN FilterOut(Tail(s), toks)
    ELSE <<Head(s)>> \o FilterOut(Tail(s), toks)

RECURSIVE JoinWith(_, _)
\* Array.prototype.join
JoinWith(parts, sep) ==
    IF parts = <<>> THEN <<>>
    ELSE IF Len(parts) = 1 THEN parts[1]
    ELSE parts[1] \o sep \o JoinWith(Tail(parts), sep)

\* ---------------------------------------------------- cleanMessageContent
RECURSIVE RemoveBlocks(_, _, _)
\* text.replace(/OPEN[\s\S]*?CLOSE\n?/g, ""): leftmost opener that has a
\* closer after it, up to the nearest closer, with one trailing newline
RemoveBlocks(s, open, close) ==
    LET p == IndexFrom(s, open, 1)
        q == IF p = 0 THEN 0 ELSE IndexFrom(s, close, p + 1)
        e == IF q # 0 /\ q < Len(s) /\ s[q + 1] = NL THEN q + 1 ELSE q
    IN  IF p = 0 \/ q = 0 THEN s
        ELSE SubSeq(s, 1, p - 1) \o RemoveBlocks(SubSeq(s, e + 1, Len(s)), open, close)

RECURSIVE RemoveBlockTools(_, _)
RemoveBlockTools(s, tags) ==
    IF tags = <<>> THEN s
    ELSE RemoveBlockTools(RemoveBlocks(s, Head(tags)[1], Head(tags)[2]), Tail(tags))

RECURSIVE CollapseBlankLines(_)
\* text.replace(/\n\s*\n/g, "\n\n"): a run of two or more newlines becomes two
CollapseBlankLines(s) ==
    IF Len(s) < 2 THEN s
    ELSE IF s[1] = NL /\ s[2] = NL
         THEN IF Len(s) >= 3 /\ s[3] = NL
              THEN CollapseBlankLines(Tail(s))
              ELSE <<NL, NL>> \o CollapseBlankLines(SubSeq(s, 3, Len(s)))
         ELSE <<s[1]>> \o CollapseBlankLines(Tail(s))

RECURSIVE TrimLeft(_)
TrimLeft(s) == IF s # <<>> /\ Head(s) = NL THEN TrimLeft(Tail(s)) ELSE s

RECURSIVE TrimRight(_)
TrimRight(s) ==
    IF s # <<>> /\ s[Len(s)] = NL THEN TrimRight(SubSeq(s, 1, Len(s) - 1)) ELSE s

Trim(s) == TrimRight(TrimLeft(s))

RECURSIVE Lex(_)
\* The tokens of the character string that s spells: the halves of an
\* opening recall marker, once adjacent, are that marker to every regular
\* expression applied afterwards.
Lex(s) ==
    IF Len(s) < 2 THEN s
    ELSE IF s[1] = RecallHead /\ s[2] = RecallTail
         THEN <<RecallOpen>> \o Lex(SubSeq(s, 3, Len(s)))
         ELSE <<s[1]>> \o Lex(Tail(s))

cleanMessageContent(text) ==
    IF text = <<>> THEN <<>>
    ELSE LET s0 == Lex(RemoveBlocks(Lex(text), EnvOpen, EnvClose))
             s1 == Lex(RemoveBlocks(s0, RecallOpen, RecallClose))
             s2 == Lex(RemoveBlocks(s1, DiffOpen, DiffClose))
             s3 == Lex(RemoveBlockTools(s2, blockToolTags))
             s4 == Lex(FilterOut(s3, {SelfClosingTag}))
             s5 == Lex(FilterOut(s4, toolTagsToRemove))
             s6 == Lex(FilterOut(s5, TagTokens))
         IN  Trim(CollapseBlankLines(s6))

\* ------------------------------------------------- messages and content
TextBlock(t) == [type |-> "text", text |-> t, kind |-> "none", inner |-> <<>>]
ImageBlock == [type |-> "image", text |-> <<>>, kind |-> "none", inner |-> <<>>]
\* tool_result whose content is a string
ToolResultString(t) == [type |-> "tool_result", text |-> t, kind |-> "string", inner |-> <<>>]
\* tool_result whose content is an array of blocks
ToolResultBlocks(bs) == [type |-> "tool_result", text |-> <<>>, kind |-> "blocks", inner |-> bs]

StringContent(t) == [kind |-> "string", text |-> t, blocks |-> <<>>]
BlockContent(bs) == [kind |-> "blocks", text |-> <<>>, blocks |-> bs]
Message(r, c) == [role |-> r, content |-> c]

RECURSIVE TextsOf(_)
\* content.filter((block) => block.type === "text").map((block) => block.text)
TextsOf(blocks) ==
    IF blocks = <<>> THEN <<>>
    ELSE IF Head(blocks).type = "text" THEN <<Head(blocks).text>> \o TextsOf(Tail(blocks))
    ELSE TextsOf(Tail(blocks))

\* the text storeExchangeInternal and the storage handler derive from a message
derivedText(msg) ==
    IF msg.content.kind = "string" THEN msg.content.text
    ELSE JoinWith(TextsOf(msg.content.blocks), <<NL, NL>>)

\* userMessageText.match(/<user_message>([\s\S]*?)<\/user_message>/), then
\* "if (userMessageMatch && userMessageMatch[1])": an empty capture is falsy
finalUserMessageToStore(userMessageText) ==
    LET p == IndexFrom(userMessageText, UserMessageOpen, 1)
        q == IF p = 0 THEN 0 ELSE IndexFrom(userMessageText, UserMessageClose, p + 1)
    IN  IF p # 0 /\ q # 0 /\ q > p + 1
        THEN Trim(SubSeq(userMessageText, p + 1, q - 1))
        ELSE userMessageText

\* the arguments of the store_exchange call
mcpArgs(userMessage, assistantMessage) ==
    [userMessage |-> finalUserMessageToStore(derivedText(userMessage)),
     assistantResponse |-> cleanMessageContent(derivedText(assistantMessage))]

\* ------------------------------------------------------- recalled memories
MemoryItem(src, chunk) ==
    [text |-> <<MemWord>>, sourceId |-> src, chunkIndex |-> chunk, isNull |-> FALSE]
NullItem == [text |-> <<>>, sourceId |-> "", chunkIndex |-> 0, isNull |-> TRUE]
Memory1 == MemoryItem("s1", 0)
Memory2 == MemoryItem("s2", 1)
\* a memory whose text is a stored user message that begins with a recall block
NestedMemory ==
    [text |-> <<RecallOpen, NL, "Memory-header", NL, MemWord, NL, RecallClose, NL, NL, Word>>,
     sourceId |-> "s3", chunkIndex |-> 0, isNull |-> FALSE]

\* "Memory n (Source: .., Chunk: .., Score: ..):\n" + item.text
formatMemory(item) == <<"Memory-header", NL>> \o item.text

RECURSIVE formattedMemories(_)
\* recalledMemories.map(...).join("\n---\n")
formattedMemories(items) ==
    IF items = <<>> THEN <<>>
    ELSE IF Len(items) = 1 THEN formatMemory(items[1])
    ELSE formatMemory(items[1]) \o <<NL, "---", NL>> \o formattedMemories(Tail(items))

memoryContextBlock(items) ==
    TextBlock(<<RecallOpen, NL>> \o formattedMemories(items) \o <<NL, RecallClose>>)

\* --------------------------------------------------------- message pool
PlainUserContent == <<TextBlock(<<Word>>)>>
\* the content of a turn that the enrichment handler has enriched
EnrichedUserContent == <<memoryContextBlock(<<Memory1>>)>> \o PlainUserContent
UserContents == {PlainUserContent, EnrichedUserContent}

\* further payloads of a user turn: several block kinds, a stale recall block
\* between other blocks, and content that yields no query text
MixedUserContent == <<TextBlock(<<Word>>), ImageBlock, ToolResultString(<<Word>>)>>
StaleMixedUserContent == <<ImageBlock, memoryContextBlock(<<Memory1>>), TextBlock(<<Word>>)>>
ImageOnlyContent == <<ImageBlock>>
EnvOnlyContent == <<TextBlock(<<EnvOpen, Word, EnvClose>>)>>
ClientUserContents ==
    UserContents \cup {MixedUserContent, StaleMixedUserContent, ImageOnlyContent, EnvOnlyContent}

UserPlain == Message("user", BlockContent(PlainUserContent))
UserEnriched == Message("user", BlockContent(EnrichedUserContent))
AssistantPlain == Message("assistant", StringContent(<<Word>>))
AssistantDone ==
    Message("assistant",
            StringContent(<<Word, NL, CompletionOpen, ResultOpen, Word, ResultClose, CompletionClose>>))

UserMessages == {UserPlain, UserEnriched}
AssistantMessages == {AssistantPlain, AssistantDone}
MessagePool == UserMessages \cup AssistantMessages

\* ------------------------------------------------------ remote responses
\* shape: what callTool produced; success: the envelope's success field;
\* data: the tool-specific field of the envelope
Response(shape, success, data) == [shape |-> shape, success |-> success, data |-> data]
NonEnvelopeShapes == {"reject", "noContent", "emptyContent", "nonText", "badJson", "jsonNull"}
SuccessValues == {"true", "false", "absent", "truthy"}
NonEnvelopes == {Response(sh, "absent", "none") : sh \in NonEnvelopeShapes}
Envelopes(datas) == {Response("object", su, d) : su \in SuccessValues, d \in datas}

StoreResponses == NonEnvelopes \cup Envelopes({"none"})
IndexResponses == NonEnvelopes \cup Envelopes({"number", "notNumber"})
IdentityResponses ==
    NonEnvelopes \cup Envelopes({"object"})
    \cup {Response("object", "true", d) : d \in {"null", "string"}}
EnrichResponses ==
    NonEnvelopes \cup Envelopes({"array1"})
    \cup {Response("object", "true", d) : d \in {"array0", "array2", "notArray", "nullItem"}}
NoResponse == Response("none", "absent", "none")

\* the value of resultPayload.recalled_memories
recalled_memories(resp) ==
    IF resp.data = "array1" THEN <<Memory1>>
    ELSE IF resp.data = "array2" THEN <<Memory1, Memory2>>
    ELSE IF resp.data = "nullItem" THEN <<NullItem>>
    ELSE <<>>

\* JavaScript truthiness of resultPayload.success
Truthy(resp) == resp.success \in {"true", "truthy"}

\* response && response.content && Array.isArray(response.content) &&
\* response.content.length > 0 && response.content[0].type === "text"
hasTextBlock(resp) == resp.shape \in {"badJson", "jsonNull", "object"}

\* ---------------------------------------------------------------- state
VARIABLES
    servers,                 \* mcpHub.getServers(): the host's service registry
    apiConversationHistory,  \* task.apiConversationHistory, append-only
    lastStoredMessageIndex,  \* the sync cursor
    sync,                    \* the syncHistory() invocations in flight
    afterEvent,              \* an afterAssistantResponseProcessed event being emitted
    enrichment,              \* the beforeUserMessageEnrichment payload and its registered promise
    identity,                \* the getCoreIdentity() invocation
    confirmed,               \* assistant indices k: a store_exchange call for pair (k-1, k)
                             \* was answered with a success envelope
    failedLast,              \* assistant indices k: the latest store attempt of the pair failed
    rejected,                \* the operation whose promise rejected, if any
    probe                    \* the latest direct call of a synchronous operation and its result

vars == <<servers, apiConversationHistory, lastStoredMessageIndex, sync, afterEvent, enrichment,
          identity, confirmed, failedLast, rejected, probe>>

Slots == 1..MaxInFlight

\* ------------------------------------------------------- service registry
Server(n, st) == [name |-> n, status |-> st]
Registries ==
    { <<Server("other-server", "connected")>>,
      <<Server("other-server", "connected"), Server(semanticMemoryServerName, "connected")>>,
      <<Server(semanticMemoryServerName, "disconnected"), Server("other-server", "connected")>> }

RECURSIVE find(_, _)
\* servers.find((server) => server.name === name): index of the first match, or 0
find(srv, n) ==
    IF srv = <<>> THEN 0
    ELSE IF Head(srv).name = n THEN 1
    ELSE LET r == find(Tail(srv), n) IN IF r = 0 THEN 0 ELSE r + 1

\* the probe without the status comparison
isAvailableByName(srv) == find(srv, semanticMemoryServerName) # 0

isAvailable(srv) ==
    LET k == find(srv, semanticMemoryServerName)
    IN  k # 0 /\ srv[k].status = "connected"

\* ------------------------------------------------------------ syncHistory
\* pc: idle, awaitIndex (get_last_chunk_index pending) or awaitStore (the
\* awaited storeExchangeInternal(history[i], history[i + 1]) pending);
\* sent: which return of storeExchangeInternal's prefix was taken
IdlePass == [pc |-> "idle", i |-> -1, sent |-> "na"]
IndexPass == [pc |-> "awaitIndex", i |-> -1, sent |-> "na"]
StorePass(i, d) == [pc |-> "awaitStore", i |-> i, sent |-> d]

RECURSIVE NextPairAnySuccessor(_, _)
\* the scan with the test of the successor's role left out: a user message
\* followed by any message counts as a pair
NextPairAnySuccessor(h, i) ==
    IF i >= Len(h) THEN -1
    ELSE IF At(h, i).role = "user" /\ i + 1 < Len(h) THEN i
    ELSE NextPairAnySuccessor(h, i + 1)

RECURSIVE NextPair(_, _)
\* the loop "for (let i = from; i < history.length; i++)" up to its first
\* position with history[i].role = user and history[i + 1].role = assistant;
\* -1 when the loop runs off the end.  No await lies between these iterations.
NextPair(h, i) ==
    IF i >= Len(h) THEN -1
    ELSE IF At(h, i).role = "user" /\ i + 1 < Len(h) /\ At(h, i + 1).role = "assistant" THEN i
    ELSE NextPair(h, i + 1)

\* storeExchangeInternal without its availability gate
storeDecisionUngated(srv, userMessage, assistantMessage) ==
    LET a == mcpArgs(userMessage, assistantMessage)
    IN  IF a.userMessage = <<>> /\ a.assistantResponse = <<>> THEN "skipped" ELSE "sent"

\* the synchronous prefix of storeExchangeInternal: which of its returns is taken
storeDecision(srv, userMessage, assistantMessage) ==
    IF ~isAvailable(srv) THEN "unavailable"
    ELSE LET a == mcpArgs(userMessage, assistantMessage)
         IN  IF a.userMessage = <<>> /\ a.assistantResponse = <<>> THEN "skipped" ELSE "sent"

\* parsing of the store_exchange response inside storeExchangeInternal's try
storeParse(resp) ==
    IF resp.shape = "reject" THEN "throw"
    ELSE IF ~hasTextBlock(resp) THEN "soft"
    ELSE IF resp.shape = "badJson" THEN "throw"      \* JSON.parse
    ELSE IF resp.shape = "jsonNull" THEN "throw"     \* null.success
    ELSE IF Truthy(resp) THEN "success" ELSE "soft"

\* storeExchangeInternal without its catch: a throw rejects the promise
storeExchangeRethrow(thrown) == "rejected"

\* the try/catch of storeExchangeInternal: what its promise does
storeExchangeCatch(thrown) == "resolved"

\* how the store attempt of a pair ended; the promise carries no value, so
\* the caller cannot tell these apart
storeExchangeInternal(sent, resp) ==
    IF sent = "skipped" THEN "skipped"
    ELSE IF sent = "unavailable" THEN "failure"
    ELSE IF storeParse(resp) = "success" THEN "success" ELSE "failure"

\* parsing of the get_last_chunk_index response (no length check on content)
indexParse(resp) ==
    IF resp.shape = "reject" THEN "throw"
    ELSE IF resp.shape = "noContent" THEN "soft"
    ELSE IF resp.shape = "emptyContent" THEN "throw"  \* response.content[0].type on undefined
    ELSE IF resp.shape = "nonText" THEN "soft"
    ELSE IF resp.shape = "badJson" THEN "throw"
    ELSE IF resp.shape = "jsonNull" THEN "throw"
    ELSE "ok"

\* the try/catch around the body of syncHistory: what its promise does when
\* the body throws
syncHistoryCatch(thrown) == "resolved"

\* the assignment with the user message's index in place of the assistant's
cursorAfterStoreUserIndex(cursor, i, outcome) == i

\* the assignment with the index after the assistant message
cursorAfterStoreNextIndex(cursor, i, outcome) == i + 2

\* the cursor assignment after the awaited store: "this.lastStoredMessageIndex = i + 1"
cursorAfterStore(cursor, i, outcome) == i + 1

\* a scan that starts over from the first message after every store
ScanStepFromStart(from, srv, h) ==
    LET i == NextPair(h, 0)
    IN  IF i = -1 THEN IdlePass
        ELSE StorePass(i, storeDecision(srv, At(h, i), At(h, i + 1)))

\* Continue the scan of a pass from index from: either the loop ends and the
\* pass resolves, or the next pair is found and its store attempt begins.
ScanStep(from, srv, h) ==
    LET i == NextPair(h, from)
    IN  IF i = -1 THEN IdlePass
        ELSE StorePass(i, storeDecision(srv, At(h, i), At(h, i + 1)))

Busy(p) == p.pc # "idle"

InFlight ==
    Cardinality({s \in Slots : Busy(sync[s])})
    + (IF enrichment.pc # "idle" THEN 1 ELSE 0)
    + (IF identity.pc # "idle" THEN 1 ELSE 0)

\* the first idle slot: where a new syncHistory() invocation is tracked
FreeSlot == IF \E s \in Slots : ~Busy(sync[s])
            THEN CHOOSE s \in Slots : ~Busy(sync[s]) /\ \A t \in Slots : t < s => Busy(sync[t])
            ELSE 0

\* no event is in the middle of its synchronous emission
Quiet ==
    /\ afterEvent = "none"
    /\ enrichment.pc # "emitted"
    /\ enrichment.redelivery.pc # "emitted"

\* syncHistory() without its availability gate
syncHistoryStartUngated(s) == sync' = [sync EXCEPT ![s] = IndexPass]

\* the synchronous prefix of syncHistory(): the availability gate, then the
\* get_last_chunk_index call, pending in slot s
syncHistoryStart(s) ==
    IF ~isAvailable(servers)
    THEN UNCHANGED sync
    ELSE sync' = [sync EXCEPT ![s] = IndexPass]

\* public syncHistory() called through the facade
syncHistory ==
    /\ Quiet
    /\ FreeSlot # 0
    /\ InFlight < MaxInFlight
    /\ syncHistoryStart(FreeSlot)
    /\ UNCHANGED <<probe, servers, apiConversationHistory, lastStoredMessageIndex, afterEvent, enrichment,
                   identity, confirmed, failedLast, rejected>>

\* get_last_chunk_index settles: lines 69-122 up to the first awaited store
IndexSettle(s, resp) ==
    /\ Quiet
    /\ sync[s].pc = "awaitIndex"
    /\ LET thrown == indexParse(resp) = "throw"
           localStartIndex == lastStoredMessageIndex + 1
       IN  IF thrown
           THEN /\ sync' = [sync EXCEPT ![s] = IdlePass]
                /\ rejected' = IF syncHistoryCatch(thrown) = "rejected" THEN "syncHistory" ELSE rejected
           ELSE /\ sync' = [sync EXCEPT ![s] =
                              IF localStartIndex >= Len(apiConversationHistory) THEN IdlePass
                              ELSE ScanStep(localStartIndex, servers, apiConversationHistory)]
                /\ UNCHANGED rejected
    /\ UNCHANGED <<probe, servers, apiConversationHistory, lastStoredMessageIndex, afterEvent, enrichment,
                   identity, confirmed, failedLast>>

\* the awaited storeExchangeInternal settles: lines 118-121, then the loop
\* continues to the next pair or ends
StoreSettle(s, resp) ==
    /\ Quiet
    /\ sync[s].pc = "awaitStore"
    /\ IF sync[s].sent = "sent" THEN resp \in StoreResponses ELSE resp = NoResponse
    /\ LET i == sync[s].i
           thrown == sync[s].sent = "sent" /\ storeParse(resp) = "throw"
           outcome == storeExchangeInternal(sync[s].sent, resp)
       IN  IF thrown /\ storeExchangeCatch(thrown) = "rejected"
           THEN \* the rejection would reach the catch of syncHistory
                /\ sync' = [sync EXCEPT ![s] = IdlePass]
                /\ rejected' = IF syncHistoryCatch(thrown) = "rejected" THEN "syncHistory" ELSE rejected
                /\ UNCHANGED <<lastStoredMessageIndex, confirmed, failedLast>>
           ELSE /\ lastStoredMessageIndex' = cursorAfterStore(lastStoredMessageIndex, i, outcome)
                /\ confirmed' = IF outcome = "success" THEN confirmed \cup {i + 1} ELSE confirmed
                /\ failedLast' = IF outcome = "failure" THEN failedLast \cup {i + 1}
                                 ELSE failedLast \ {i + 1}
                /\ sync' = [sync EXCEPT ![s] = ScanStep(i + 2, servers, apiConversationHistory)]
                /\ UNCHANGED rejected
    /\ UNCHANGED <<probe, servers, apiConversationHistory, afterEvent, enrichment, identity>>

\* ------------------------------------------------------ the taskId guard
\* the guard with the comparison left out: every event is taken as the task's own
taskIdIgnored(taskId) == TRUE

\* "if (payload.taskId !== this.task.taskId) return", negated
taskIdMatches(taskId) == taskId = OwnTaskId

\* --------------------------------------- afterAssistantResponseProcessed
\* The host emits the event after the assistant's response was added to the
\* transcript; the payload carries that response and the user message before
\* it.  The handler runs synchronously inside the emission.
EmitAfterAssistantResponseProcessed(taskId) ==
    LET h == apiConversationHistory
        n == Len(h)
    IN  /\ Quiet
        /\ n >= 2
        /\ At(h, n - 1).role = "assistant"
        /\ At(h, n - 2).role = "user"
        /\ FreeSlot # 0
        /\ InFlight < MaxInFlight
        /\ afterEvent' = taskId
        /\ UNCHANGED <<probe, servers, apiConversationHistory, lastStoredMessageIndex, sync, enrichment,
                       identity, confirmed, failedLast, rejected>>

\* payload.assistantMessage of the event being emitted
EventAssistantMessage == At(apiConversationHistory, Len(apiConversationHistory) - 1)
EventUserMessage == At(apiConversationHistory, Len(apiConversationHistory) - 2)

\* the completion test left out: every assistant message counts as a completion
completionAlways(assistantMessageText) == TRUE

\* assistantMessageText.includes("<attempt_completion>")
completionDetected(assistantMessageText) == Includes(assistantMessageText, CompletionOpen)

\* a storage handler that sanitizes payload.assistantMessage in place: the
\* payload's message is the transcript's last entry
handleAfterAssistantResponseProcessedInPlace ==
    /\ afterEvent # "none"
    /\ afterEvent' = "none"
    /\ apiConversationHistory' =
          IF ~taskIdMatches(afterEvent) THEN apiConversationHistory
          ELSE [apiConversationHistory EXCEPT ![Len(apiConversationHistory)] =
                   Message("assistant",
                           StringContent(cleanMessageContent(derivedText(EventAssistantMessage))))]
    /\ IF ~taskIdMatches(afterEvent)
       THEN UNCHANGED sync
       ELSE IF completionDetected(derivedText(EventAssistantMessage))
       THEN syncHistoryStart(FreeSlot)
       ELSE UNCHANGED sync
    /\ UNCHANGED <<probe, servers, lastStoredMessageIndex, enrichment, identity,
                   confirmed, failedLast, rejected>>

handleAfterAssistantResponseProcessed ==
    /\ afterEvent # "none"
    /\ afterEvent' = "none"
    /\ IF ~taskIdMatches(afterEvent)
       THEN UNCHANGED sync
       ELSE IF completionDetected(derivedText(EventAssistantMessage))
       THEN syncHistoryStart(FreeSlot)
       ELSE UNCHANGED sync
    /\ UNCHANGED <<probe, servers, apiConversationHistory, lastStoredMessageIndex, enrichment, identity,
                   confirmed, failedLast, rejected>>

\* ------------------------------------------- beforeUserMessageEnrichment
\* original: the array object the host supplied as payload.userContent, as the
\* host's own reference sees it; userContent: the array payload.userContent is
\* bound to; rebound: payload.userContent has been assigned a new array;
\* promises: payload.promises.length; redelivery: the handling of a second
\* emission of the event with the same payload object
IdleRedelivery == [pc |-> "idle", status |-> "none"]

\* query: the userQuery argument of the pending or settled enrich_context call
IdleEnrichment ==
    [pc |-> "idle", taskId |-> "none", userContent |-> <<>>, status |-> "none",
     result |-> <<>>, resp |-> NoResponse, original |-> <<>>, query |-> <<>>,
     rebound |-> FALSE, promises |-> 0, redelivery |-> IdleRedelivery]

RECURSIVE filterStale(_)
\* payload.userContent.filter(...): drops text blocks whose trimmed text
\* starts with the recall marker
filterStale(blocks) ==
    IF blocks = <<>> THEN <<>>
    ELSE LET b == Head(blocks)
             t == Trim(b.text)
         IN  IF b.type = "text" /\ t # <<>> /\ Head(t) = RecallOpen
             THEN filterStale(Tail(blocks))
             ELSE <<b>> \o filterStale(Tail(blocks))

RECURSIVE userQueryPartsTextOnly(_)
\* the loop without its tool_result branch
userQueryPartsTextOnly(blocks) ==
    IF blocks = <<>> THEN <<>>
    ELSE LET b == Head(blocks)
         IN  (IF b.type = "text" THEN <<b.text>> ELSE <<>>) \o userQueryPartsTextOnly(Tail(blocks))

RECURSIVE userQueryParts(_)
\* the parts pushed by the loop over payload.userContent
userQueryParts(blocks) ==
    IF blocks = <<>> THEN <<>>
    ELSE LET b == Head(blocks)
             own == IF b.type = "text" THEN <<b.text>>
                    ELSE IF b.type = "tool_result" /\ b.kind = "string" THEN <<b.text>>
                    ELSE IF b.type = "tool_result" /\ b.kind = "blocks" THEN TextsOf(b.inner)
                    ELSE <<>>
         IN  own \o userQueryParts(Tail(blocks))

\* userQueryParts.join("\n\n")
rawUserQuery(blocks) == JoinWith(userQueryParts(blocks), <<NL, NL>>)

userQuery(blocks) == cleanMessageContent(rawUserQuery(blocks))

\* the guard left out: no query counts as empty
emptyQueryNever(query) == FALSE

\* "if (!userQuery) return": the empty string is the only falsy query
emptyQuery(query) == query = <<>>

\* a parse that does not look at resultPayload.success
enrichParseAnySuccess(resp) ==
    IF resp.shape = "reject" THEN "throw"
    ELSE IF ~hasTextBlock(resp) THEN "soft"
    ELSE IF resp.shape = "badJson" THEN "throw"
    ELSE IF resp.shape = "jsonNull" THEN "throw"
    ELSE IF resp.data \in {"array1", "array2", "array0", "nullItem"} THEN "ok"
    ELSE "soft"

\* parsing of the enrich_context response inside enrichWithContextInternal's try
enrichParse(resp) ==
    IF resp.shape = "reject" THEN "throw"
    ELSE IF ~hasTextBlock(resp) THEN "soft"
    ELSE IF resp.shape = "badJson" THEN "throw"
    ELSE IF resp.shape = "jsonNull" THEN "throw"
    ELSE IF Truthy(resp) /\ resp.data \in {"array1", "array2", "array0", "nullItem"} THEN "ok"
    ELSE "soft"

\* enrichWithContextInternal without its catch: a throw rejects the promise
enrichContextRethrow(thrown) == "rejected"

\* the try/catch of enrichWithContextInternal: what its promise does when the
\* body throws
enrichContextCatch(thrown) == "resolved"

\* the value enrichWithContextInternal returns once the call has settled
enrichWithContextInternal(resp) ==
    IF enrichParse(resp) = "ok" THEN recalled_memories(resp) ELSE <<>>

\* the block put after the user's content instead of before it
afterEnrichAppended(e, items, resp) ==
    IF items = <<>>
    THEN [e EXCEPT !.pc = "settled", !.status = "resolved", !.result = items, !.resp = resp]
    ELSE [e EXCEPT !.pc = "settled", !.status = "resolved", !.result = items, !.resp = resp,
                   !.userContent = e.userContent \o <<memoryContextBlock(items)>>]

\* lines 204-221: format the memories and prepend the block; formatting a
\* null item throws outside any try, so the registered promise rejects
afterEnrich(e, items, resp) ==
    IF items = <<>>
    THEN [e EXCEPT !.pc = "settled", !.status = "resolved", !.result = items, !.resp = resp]
    ELSE IF \E k \in 1..Len(items) : items[k].isNull
    THEN [e EXCEPT !.pc = "settled", !.status = "rejected", !.result = items, !.resp = resp]
    ELSE [e EXCEPT !.pc = "settled", !.status = "resolved", !.result = items, !.resp = resp,
                   !.userContent = <<memoryContextBlock(items)>> \o e.userContent,
                   !.original = IF e.rebound THEN e.original
                                ELSE <<memoryContextBlock(items)>> \o e.original]

\* the host builds the payload of a user turn and emits the event
EmitBeforeUserMessageEnrichment(taskId, content) ==
    /\ Quiet
    /\ enrichment.pc = "idle"
    /\ InFlight < MaxInFlight
    /\ Len(apiConversationHistory) < MaxHistory
    /\ enrichment' = [IdleEnrichment EXCEPT !.pc = "emitted", !.taskId = taskId,
                                            !.userContent = content, !.original = content]
    /\ UNCHANGED <<probe, servers, apiConversationHistory, lastStoredMessageIndex, sync, afterEvent,
                   identity, confirmed, failedLast, rejected>>

\* payload.promises.push(enrichmentPromise()) is outside the async function:
\* it runs for every event, whatever its taskId
promisesPush(taskId, length) == length + 1

\* a handler that awaits enrich_context inside the emission: the event is not
\* delivered until the call has settled and the recall block is in place
handleBeforeUserMessageEnrichmentInline ==
    LET filtered == filterStale(enrichment.userContent)
        e1 == [enrichment EXCEPT !.userContent = filtered]
    IN  /\ enrichment.pc = "emitted"
        /\ \E resp \in EnrichResponses :
              enrichment' =
                 IF ~taskIdMatches(enrichment.taskId)
                 THEN [enrichment EXCEPT !.pc = "settled", !.status = "resolved"]
                 ELSE IF emptyQuery(userQuery(filtered))
                 THEN [e1 EXCEPT !.pc = "settled", !.status = "resolved"]
                 ELSE IF ~isAvailable(servers)
                 THEN afterEnrich(e1, <<>>, NoResponse)
                 ELSE afterEnrich(e1, enrichWithContextInternal(resp), resp)
        /\ UNCHANGED <<probe, servers, apiConversationHistory, lastStoredMessageIndex, sync,
                       afterEvent, identity, confirmed, failedLast, rejected>>

\* The handler registers one promise; its body runs synchronously up to the
\* awaited enrich_context call.
handleBeforeUserMessageEnrichment ==
    LET filtered == filterStale(enrichment.userContent)
        e0 == [enrichment EXCEPT !.promises = promisesPush(enrichment.taskId, @)]
        e1 == [e0 EXCEPT !.userContent = filtered, !.rebound = TRUE]
    IN  /\ enrichment.pc = "emitted"
        /\ enrichment' =
              IF ~taskIdMatches(enrichment.taskId)
              THEN [e0 EXCEPT !.pc = "settled", !.status = "resolved"]
              ELSE IF emptyQuery(userQuery(filtered))
              THEN [e1 EXCEPT !.pc = "settled", !.status = "resolved"]
              ELSE IF ~isAvailable(servers)
              THEN afterEnrich(e1, <<>>, NoResponse)
              ELSE [e1 EXCEPT !.pc = "awaitEnrich", !.status = "pending",
                              !.query = userQuery(filtered)]
        /\ UNCHANGED <<probe, servers, apiConversationHistory, lastStoredMessageIndex, sync, afterEvent,
                       identity, confirmed, failedLast, rejected>>

\* enrich_context settles; the rest of the promise body runs
EnrichSettle(resp) ==
    /\ Quiet
    /\ enrichment.pc = "awaitEnrich"
    /\ LET thrown == enrichParse(resp) = "throw"
       IN  enrichment' =
              IF thrown /\ enrichContextCatch(thrown) = "rejected"
              THEN [enrichment EXCEPT !.pc = "settled", !.status = "rejected", !.resp = resp]
              ELSE afterEnrich(enrichment, enrichWithContextInternal(resp), resp)
    /\ UNCHANGED <<probe, servers, apiConversationHistory, lastStoredMessageIndex, sync, afterEvent,
                   identity, confirmed, failedLast, rejected>>

\* ------------------------------------ a second emission, same payload
\* the host emits beforeUserMessageEnrichment again with the payload object of
\* the turn in progress: a retry once the first promise has settled, or a
\* duplicate delivery while it is pending
EmitAgain ==
    /\ Quiet
    /\ enrichment.pc \in {"awaitEnrich", "settled"}
    /\ enrichment.redelivery.pc = "idle"
    /\ enrichment' = [enrichment EXCEPT !.redelivery.pc = "emitted"]
    /\ UNCHANGED <<probe, servers, apiConversationHistory, lastStoredMessageIndex, sync, afterEvent,
                   identity, confirmed, failedLast, rejected>>

\* lines 204-217 run by the second handling: the block goes to the front of
\* the array payload.userContent is bound to at that moment
afterEnrichAgain(e, items) ==
    IF items = <<>>
    THEN [e EXCEPT !.redelivery = [pc |-> "settled", status |-> "resolved"]]
    ELSE IF \E k \in 1..Len(items) : items[k].isNull
    THEN [e EXCEPT !.redelivery = [pc |-> "settled", status |-> "rejected"]]
    ELSE [e EXCEPT !.redelivery = [pc |-> "settled", status |-> "resolved"],
                   !.userContent = <<memoryContextBlock(items)>> \o e.userContent]

\* the handler run for the second emission, up to its awaited call
handleAgain ==
    LET filtered == filterStale(enrichment.userContent)
        e0 == [enrichment EXCEPT !.promises = promisesPush(enrichment.taskId, @)]
        e1 == [e0 EXCEPT !.userContent = filtered, !.rebound = TRUE]
    IN  /\ enrichment.redelivery.pc = "emitted"
        /\ enrichment' =
              IF ~taskIdMatches(enrichment.taskId)
              THEN [e0 EXCEPT !.redelivery = [pc |-> "settled", status |-> "resolved"]]
              ELSE IF emptyQuery(userQuery(filtered))
              THEN [e1 EXCEPT !.redelivery = [pc |-> "settled", status |-> "resolved"]]
              ELSE IF ~isAvailable(servers)
              THEN afterEnrichAgain(e1, <<>>)
              ELSE [e1 EXCEPT !.redelivery = [pc |-> "awaitEnrich", status |-> "pending"]]
        /\ UNCHANGED <<probe, servers, apiConversationHistory, lastStoredMessageIndex, sync, afterEvent,
                       identity, confirmed, failedLast, rejected>>

\* the enrich_context call of the second handling settles
AgainSettle(resp) ==
    /\ Quiet
    /\ enrichment.redelivery.pc = "awaitEnrich"
    /\ LET thrown == enrichParse(resp) = "throw"
       IN  enrichment' =
              IF thrown /\ enrichContextCatch(thrown) = "rejected"
              THEN [enrichment EXCEPT !.redelivery = [pc |-> "settled", status |-> "rejected"]]
              ELSE afterEnrichAgain(enrichment, enrichWithContextInternal(resp))
    /\ UNCHANGED <<probe, servers, apiConversationHistory, lastStoredMessageIndex, sync, afterEvent,
                   identity, confirmed, failedLast, rejected>>

\* ------------------------------------------------------- getCoreIdentity
\* op: which of the two fetches of the core identity is running, the
\* integration's getCoreIdentity() or the system prompt's getCoreIdentityPrompt()
IdleIdentity ==
    [op |-> "none", pc |-> "idle", result |-> "none", status |-> "none", resp |-> NoResponse]

\* a parse that does not look at resultPayload.success
identityParseAnySuccess(resp) ==
    IF resp.shape = "reject" THEN "throw"
    ELSE IF ~hasTextBlock(resp) THEN "soft"
    ELSE IF resp.shape = "badJson" THEN "throw"
    ELSE IF resp.shape = "jsonNull" THEN "throw"
    ELSE IF resp.data = "object" THEN "ok"
    ELSE "soft"

\* the same response test is written out in getCoreIdentity (part_002) and in
\* getCoreIdentityPrompt (system.ts)
identityParse(resp) ==
    IF resp.shape = "reject" THEN "throw"
    ELSE IF ~hasTextBlock(resp) THEN "soft"
    ELSE IF resp.shape = "badJson" THEN "throw"
    ELSE IF resp.shape = "jsonNull" THEN "throw"
    ELSE IF Truthy(resp) /\ resp.data = "object" THEN "ok"
    ELSE "soft"

\* the try/catch of getCoreIdentity: what its promise does when the body throws
getCoreIdentityCatch(thrown) == "resolved"

\* the value of the settled getCoreIdentity promise: the identity text, or null
getCoreIdentityResult(resp) == IF identityParse(resp) = "ok" THEN "identity" ELSE "null"

getCoreIdentity ==
    /\ Quiet
    /\ identity.pc = "idle"
    /\ InFlight < MaxInFlight
    /\ identity' = IF ~isAvailable(servers)
                   THEN [IdleIdentity EXCEPT !.op = "getCoreIdentity", !.pc = "settled",
                                             !.result = "null", !.status = "resolved"]
                   ELSE [IdleIdentity EXCEPT !.op = "getCoreIdentity", !.pc = "await",
                                             !.status = "pending"]
    /\ UNCHANGED <<probe, servers, apiConversationHistory, lastStoredMessageIndex, sync, afterEvent,
                   enrichment, confirmed, failedLast, rejected>>

IdentitySettle(resp) ==
    /\ Quiet
    /\ identity.pc = "await"
    /\ identity.op = "getCoreIdentity"
    /\ LET thrown == identityParse(resp) = "throw"
       IN  identity' =
              IF thrown /\ getCoreIdentityCatch(thrown) = "rejected"
              THEN [identity EXCEPT !.pc = "settled", !.status = "rejected", !.resp = resp]
              ELSE [identity EXCEPT !.pc = "settled", !.result = getCoreIdentityResult(resp),
                                    !.status = "resolved", !.resp = resp]
    /\ UNCHANGED <<probe, servers, apiConversationHistory, lastStoredMessageIndex, sync, afterEvent,
                   enrichment, confirmed, failedLast, rejected>>

\* ------------------------------------------------- getCoreIdentityPrompt
\* the three [CRITICAL] notices of the system prompt
CriticalNotices == {"criticalNoHub", "criticalUnavailable", "criticalMissing"}

\* the try/catch of getCoreIdentityPrompt: the error is logged and the
\* function falls through to the final notice
getCoreIdentityPromptCatch(thrown) == "resolved"

\* the text the system prompt receives once the call has settled
getCoreIdentityPromptResult(resp) ==
    IF identityParse(resp) = "ok" THEN "identity" ELSE "criticalMissing"

\* getCoreIdentityPrompt(mcpHub?) up to its awaited get_core_identity call;
\* hub: whether the optional mcpHub argument is present
getCoreIdentityPrompt(hub) ==
    /\ Quiet
    /\ identity.pc = "idle"
    /\ InFlight < MaxInFlight
    /\ identity' =
          IF ~hub
          THEN [IdleIdentity EXCEPT !.op = "getCoreIdentityPrompt", !.pc = "settled",
                                    !.result = "criticalNoHub", !.status = "resolved"]
          ELSE IF ~isAvailable(servers)
          THEN [IdleIdentity EXCEPT !.op = "getCoreIdentityPrompt", !.pc = "settled",
                                    !.result = "criticalUnavailable", !.status = "resolved"]
          ELSE [IdleIdentity EXCEPT !.op = "getCoreIdentityPrompt", !.pc = "await",
                                    !.status = "pending"]
    /\ UNCHANGED <<probe, servers, apiConversationHistory, lastStoredMessageIndex, sync, afterEvent,
                   enrichment, confirmed, failedLast, rejected>>

PromptSettle(resp) ==
    /\ Quiet
    /\ identity.pc = "await"
    /\ identity.op = "getCoreIdentityPrompt"
    /\ LET thrown == identityParse(resp) = "throw"
       IN  identity' =
              IF thrown /\ getCoreIdentityPromptCatch(thrown) = "rejected"
              THEN [identity EXCEPT !.pc = "settled", !.status = "rejected", !.resp = resp]
              ELSE [identity EXCEPT !.pc = "settled", !.result = getCoreIdentityPromptResult(resp),
                                    !.status = "resolved", !.resp = resp]
    /\ UNCHANGED <<probe, servers, apiConversationHistory, lastStoredMessageIndex, sync, afterEvent,
                   enrichment, confirmed, failedLast, rejected>>

\* the caller has taken the result
IdentityTaken ==
    /\ Quiet
    /\ identity.pc = "settled"
    /\ identity' = IdleIdentity
    /\ UNCHANGED <<probe, servers, apiConversationHistory, lastStoredMessageIndex, sync, afterEvent,
                   enrichment, confirmed, failedLast, rejected>>

\* ------------------------------------------------------------- the host
\* the registry changes (connect, disconnect, removal)
RegistryChange(r) ==
    /\ Quiet
    /\ r # servers
    /\ servers' = r
    /\ UNCHANGED <<probe, apiConversationHistory, lastStoredMessageIndex, sync, afterEvent, enrichment,
                   identity, confirmed, failedLast, rejected>>

\* a user turn in progress will add its message: it reserves a transcript place
Reserved == IF enrichment.pc # "idle" /\ enrichment.taskId = OwnTaskId THEN 1 ELSE 0

\* the host appends a message to the transcript
HostAppend(msg) ==
    /\ Quiet
    /\ Len(apiConversationHistory) + Reserved < MaxHistory
    /\ apiConversationHistory' = Append(apiConversationHistory, msg)
    /\ UNCHANGED <<probe, servers, lastStoredMessageIndex, sync, afterEvent, enrichment, identity,
                   confirmed, failedLast, rejected>>

\* the host has awaited payload.promises and adds the user message with the
\* (possibly enriched) content to the transcript
HostAddUserMessage ==
    /\ Quiet
    /\ enrichment.pc = "settled"
    /\ enrichment.redelivery.pc \in {"idle", "settled"}
    /\ apiConversationHistory' =
          IF enrichment.taskId = OwnTaskId
          THEN Append(apiConversationHistory, Message("user", BlockContent(enrichment.userContent)))
          ELSE apiConversationHistory
    /\ enrichment' = IdleEnrichment
    /\ UNCHANGED <<probe, servers, lastStoredMessageIndex, sync, afterEvent, identity,
                   confirmed, failedLast, rejected>>

\* the host abandons the turn: the payload is dropped
TurnAbandoned ==
    /\ Quiet
    /\ enrichment.pc = "settled"
    /\ enrichment.redelivery.pc \in {"idle", "settled"}
    /\ enrichment' = IdleEnrichment
    /\ UNCHANGED <<probe, servers, apiConversationHistory, lastStoredMessageIndex, sync, afterEvent,
                   identity, confirmed, failedLast, rejected>>

\* ----------------------------------------------------------- direct calls
NoArgs == [query |-> <<>>, conversationContext |-> <<>>, topK |-> 0]
NoProbe ==
    [op |-> "none", registry |-> <<>>, available |-> FALSE, text |-> <<>>, cleaned |-> <<>>,
     history |-> <<>>, args |-> NoArgs, messages |-> <<>>, stored |-> <<>>]

\* isAvailable() called on the facade
isAvailableCall ==
    /\ probe' = [NoProbe EXCEPT !.op = "isAvailable", !.registry = servers,
                                !.available = isAvailable(servers)]
    /\ UNCHANGED <<servers, apiConversationHistory, lastStoredMessageIndex, sync, afterEvent,
                   enrichment, identity, confirmed, failedLast, rejected>>

\* cleanMessageContent(text) called
cleanMessageContentCall(text) ==
    /\ probe' = [NoProbe EXCEPT !.op = "cleanMessageContent", !.text = text,
                                !.cleaned = cleanMessageContent(text)]
    /\ UNCHANGED <<servers, apiConversationHistory, lastStoredMessageIndex, sync, afterEvent,
                   enrichment, identity, confirmed, failedLast, rejected>>

\* ------------------------------------------- the enrich_context request
Space == " "
RoleSeparator == ": "

\* recentHistory.slice(-6)
historySlice(recentHistory) ==
    IF Len(recentHistory) <= 6 THEN recentHistory
    ELSE SubSeq(recentHistory, Len(recentHistory) - 5, Len(recentHistory))

\* the content of a history message inside enrichWithContextInternal: the
\* string, or the texts of the text blocks joined with one space
contextContent(msg) ==
    IF msg.content.kind = "string" THEN msg.content.text
    ELSE JoinWith(TextsOf(msg.content.blocks), <<Space>>)

\* `${msg.role}: ${content}` with the sanitized content
contextLine(msg) == <<msg.role, RoleSeparator>> \o cleanMessageContent(contextContent(msg))

\* historySlice.map(...).join("\n")
conversationContextString(recentHistory) ==
    LET slice == historySlice(recentHistory)
    IN  JoinWith([k \in 1..Len(slice) |-> contextLine(slice[k])], <<NL>>)

\* the arguments of the enrich_context call
enrichArgs(currentUserMessageContent, recentHistory) ==
    [query |-> currentUserMessageContent,
     conversationContext |-> conversationContextString(recentHistory),
     topK |-> 3]

\* enrichWithContextInternal(query, recentHistory) builds its request
enrichArgsCall(query, recentHistory) ==
    /\ isAvailable(servers)
    /\ probe' = [NoProbe EXCEPT !.op = "enrichArgs", !.history = recentHistory,
                                !.args = enrichArgs(query, recentHistory)]
    /\ UNCHANGED <<servers, apiConversationHistory, lastStoredMessageIndex, sync, afterEvent,
                   enrichment, identity, confirmed, failedLast, rejected>>

\* storeExchangeInternal(userMessage, assistantMessage) builds its request,
\* unless both texts are empty after processing
mcpArgsCall(userMessage, assistantMessage) ==
    /\ isAvailable(servers)
    /\ LET args == mcpArgs(userMessage, assistantMessage)
           skipped == args.userMessage = <<>> /\ args.assistantResponse = <<>>
       IN  probe' = [NoProbe EXCEPT !.op = "mcpArgs", !.messages = <<userMessage, assistantMessage>>,
                                   !.stored = IF skipped THEN <<>> ELSE <<args>>]
    /\ UNCHANGED <<servers, apiConversationHistory, lastStoredMessageIndex, sync, afterEvent,
                   enrichment, identity, confirmed, failedLast, rejected>>

\* the registries the host can present: entries with distinct names
ServerStatuses == {"connected", "connecting", "disconnected"}
ServerNames == {semanticMemoryServerName, "other-server"}
ProbeRegistries ==
    {<<>>}
    \cup {<<Server(n, st)>> : n \in ServerNames, st \in ServerStatuses}
    \cup UNION {{<<Server(n1, st1), Server(n2, st2)>> :
                     n2 \in ServerNames \ {n1},
                     st1 \in ServerStatuses, st2 \in ServerStatuses} : n1 \in ServerNames}

\* the texts given to the sanitizer: every token sequence up to MaxTextLen,
\* and the recall blocks the enrichment handler builds, alone and followed by
\* the user's text
SanitizerTokens == {Word, NL, UnknownOpen, RecallHead, RecallTail, RecallOpen, RecallClose}
Texts == UNION {[1..n -> SanitizerTokens] : n \in 0..MaxTextLen}
MemoryLists == {<<Memory1>>, <<Memory1, Memory2>>, <<NestedMemory>>}
RecallTexts ==
    {memoryContextBlock(items).text : items \in MemoryLists}
    \cup {memoryContextBlock(items).text \o <<NL, NL, Word>> : items \in MemoryLists}
SanitizerInputs == Texts \cup RecallTexts

\* ------------------------------------------------------- specifications
\* an exchange with nothing to remember: the user message is only an
\* environment-details block, the assistant message only an empty tool block
UserEnvOnly == Message("user", BlockContent(EnvOnlyContent))
AssistantToolOnly == Message("assistant", StringContent(<<CompletionOpen, CompletionClose>>))

InitialTranscripts ==
    {<<>>, <<UserPlain, AssistantPlain>>, <<UserEnriched, AssistantDone>>,
     <<UserEnvOnly, AssistantToolOnly>>}

\* the state after the constructor: handlers subscribed, cursor at -1 and the
\* fire-and-forget syncHistory() pass started
Init ==
    /\ servers \in Registries
    /\ apiConversationHistory \in InitialTranscripts
    /\ lastStoredMessageIndex = -1
    /\ sync = [s \in Slots |-> IF s = 1 /\ isAvailable(servers) THEN IndexPass ELSE IdlePass]
    /\ afterEvent = "none"
    /\ enrichment = IdleEnrichment
    /\ identity = IdleIdentity
    /\ confirmed = {}
    /\ failedLast = {}
    /\ rejected = "none"
    /\ probe = NoProbe

\* the responses of enrich_context that differ in what a turn adds to the transcript
TurnEnrichResponses == {Response("object", "true", "array1"), Response("reject", "absent", "none")}

\* Spec: the integration with a live, growing transcript
Next ==
    \/ \E r \in Registries : RegistryChange(r)
    \/ \E msg \in MessagePool : HostAppend(msg)
    \/ HostAddUserMessage
    \/ syncHistory
    \/ \E s \in Slots, resp \in IndexResponses : IndexSettle(s, resp)
    \/ \E s \in Slots, resp \in StoreResponses \cup {NoResponse} : StoreSettle(s, resp)
    \/ \E taskId \in TaskIds : EmitAfterAssistantResponseProcessed(taskId)
    \/ handleAfterAssistantResponseProcessed
    \/ \E taskId \in TaskIds, content \in UserContents : EmitBeforeUserMessageEnrichment(taskId, content)
    \/ handleBeforeUserMessageEnrichment
    \/ \E resp \in TurnEnrichResponses : EnrichSettle(resp)

Spec == Init /\ [][Next]_vars

\* SyncSpec: the synchronizer alone over a growing transcript of plain messages
PlainMessages == {UserPlain, AssistantPlain}

SyncNext ==
    \/ \E r \in Registries : RegistryChange(r)
    \/ \E msg \in PlainMessages : HostAppend(msg)
    \/ syncHistory
    \/ \E s \in Slots, resp \in IndexResponses : IndexSettle(s, resp)
    \/ \E s \in Slots, resp \in StoreResponses \cup {NoResponse} : StoreSettle(s, resp)

SyncSpec == Init /\ [][SyncNext]_vars

\* the pending get_last_chunk_index or store_exchange call of the pass in
\* slot s settles and the pass runs on to its next await or to its end.  The
\* steps of SyncNext that satisfy this are the IndexSettle(s, _) and
\* StoreSettle(s, _) steps, and it is enabled exactly when one of them is;
\* it names the values a settle step can leave, not how they are computed.
PassResumes(s) ==
    /\ Quiet
    /\ Busy(sync[s])
    /\ \E p \in {IdlePass} \cup {StorePass(i, d) : i \in 0..(MaxHistory - 2),
                                                  d \in {"sent", "skipped", "unavailable"}} :
          sync' = [sync EXCEPT ![s] = p]
    /\ lastStoredMessageIndex' \in -1..(MaxHistory - 1)
    /\ confirmed' \in SUBSET (0..(MaxHistory - 1))
    /\ failedLast' \in SUBSET (0..(MaxHistory - 1))
    /\ rejected' \in {rejected, "syncHistory"}
    /\ UNCHANGED <<probe, servers, apiConversationHistory, afterEvent, enrichment, identity>>

\* every pending get_last_chunk_index and store_exchange call settles
SettleFairness == \A s \in Slots : WF_vars(PassResumes(s))

\* SettlingSyncSpec: the passes of syncHistory over a transcript that grows
\* by at most MaxHistory messages, with remote calls that resolve or reject
\* and always settle
SettlingIndexResponses == {Response("object", "true", "number"), Response("reject", "absent", "none")}
SettlingStoreResponses ==
    {Response("object", "true", "none"), Response("reject", "absent", "none"), NoResponse}
SettlingSyncNext ==
    \/ \E msg \in PlainMessages : HostAppend(msg)
    \/ syncHistory
    \/ \E s \in Slots, resp \in SettlingIndexResponses : IndexSettle(s, resp)
    \/ \E s \in Slots, resp \in SettlingStoreResponses : StoreSettle(s, resp)

SettlingSyncSpec == Init /\ [][SettlingSyncNext]_vars /\ SettleFairness

\* RegistrySpec: the availability probe against a changing registry
RegistryNext ==
    \/ \E r \in ProbeRegistries : RegistryChange(r)
    \/ isAvailableCall

RegistrySpec == Init /\ [][RegistryNext]_vars

\* SanitizerSpec: the sanitizer applied once to a text of the bounded set
SanitizerNext ==
    /\ probe.op = "none"
    /\ \E text \in SanitizerInputs : cleanMessageContentCall(text)

SanitizerSpec == Init /\ [][SanitizerNext]_vars

\* the messages given to the two request builders
UserTwoBlocks == Message("user", BlockContent(<<TextBlock(<<Word>>), ImageBlock, TextBlock(<<MemWord>>)>>))
UserToolResultOnly == Message("user", BlockContent(<<ToolResultString(<<Word>>)>>))
UserFramed ==
    Message("user", StringContent(<<EnvOpen, Word, EnvClose, UserMessageOpen, MemWord, UserMessageClose>>))
UserFramedEmpty ==
    Message("user", StringContent(<<EnvOpen, Word, EnvClose, UserMessageOpen, UserMessageClose>>))
ContextMessages == {UserPlain, AssistantDone}
ContextHistories ==
    UNION {[1..n -> ContextMessages] : n \in 0..MaxSlice}
    \cup {<<UserTwoBlocks, AssistantPlain>>, <<UserToolResultOnly, AssistantPlain>>}
StoredUserMessages ==
    {UserPlain, UserEnriched, UserEnvOnly, UserTwoBlocks, UserToolResultOnly, UserFramed, UserFramedEmpty}
StoredAssistantMessages == {AssistantPlain, AssistantDone, AssistantToolOnly}

\* RequestSpec: the requests that enrichWithContextInternal and
\* storeExchangeInternal build, each built once for given arguments
RequestNext ==
    /\ probe.op = "none"
    /\ \/ \E recentHistory \in ContextHistories : enrichArgsCall(<<Word>>, recentHistory)
       \/ \E userMessage \in StoredUserMessages, assistantMessage \in StoredAssistantMessages :
             mcpArgsCall(userMessage, assistantMessage)

RequestSpec == Init /\ [][RequestNext]_vars

\* IdentitySpec: the two fetches of the core identity against a changing
\* registry and every response of the service
IdentityNext ==
    \/ \E r \in ProbeRegistries : RegistryChange(r)
    \/ getCoreIdentity
    \/ \E resp \in IdentityResponses : IdentitySettle(resp)
    \/ \E hub \in BOOLEAN : getCoreIdentityPrompt(hub)
    \/ \E resp \in IdentityResponses : PromptSettle(resp)
    \/ IdentityTaken

IdentitySpec == Init /\ [][IdentityNext]_vars

\* EnrichSpec: the enrichment handler alone, on the first turn of a
\* conversation, over every payload of up to MaxBlocks blocks drawn from
\* QueryBlocks
QueryBlocks ==
    {TextBlock(<<Word>>), ImageBlock,
     ToolResultString(<<"t">>),
     ToolResultBlocks(<<TextBlock(<<"u">>), ImageBlock, TextBlock(<<"v">>)>>),
     TextBlock(<<EnvOpen, Word, EnvClose>>), memoryContextBlock(<<Memory1>>)}
QueryContents == UNION {[1..n -> QueryBlocks] : n \in 1..MaxBlocks}

EnrichNext ==
    \/ \E r \in Registries : RegistryChange(r)
    \/ /\ apiConversationHistory = <<>>
       /\ \E taskId \in TaskIds, content \in QueryContents :
             EmitBeforeUserMessageEnrichment(taskId, content)
    \/ handleBeforeUserMessageEnrichment
    \/ \E resp \in TurnEnrichResponses : EnrichSettle(resp)
    \/ TurnAbandoned

EnrichSpec == Init /\ [][EnrichNext]_vars

\* RedeliverySpec: a turn whose event the host emits a second time with the
\* same payload
RedeliveryNext ==
    \/ \E r \in Registries : RegistryChange(r)
    \/ \E taskId \in TaskIds, content \in ClientUserContents : EmitBeforeUserMessageEnrichment(taskId, content)
    \/ handleBeforeUserMessageEnrichment
    \/ \E resp \in EnrichResponses : EnrichSettle(resp)
    \/ EmitAgain
    \/ handleAgain
    \/ \E resp \in EnrichResponses : AgainSettle(resp)
    \/ TurnAbandoned

RedeliverySpec == Init /\ [][RedeliveryNext]_vars

\* TurnSpec: whole turns over a growing transcript, with a registry that
\* stays as it was at construction and a service that answers every
\* synchronizer call successfully
TurnMessages == {UserPlain, AssistantDone}
TurnIndexResponses == {Response("object", "true", "number")}
TurnStoreResponses == {Response("object", "true", "none")}

TurnNext ==
    \/ \E msg \in TurnMessages : HostAppend(msg)
    \/ HostAddUserMessage
    \/ syncHistory
    \/ \E s \in Slots, resp \in TurnIndexResponses : IndexSettle(s, resp)
    \/ \E s \in Slots, resp \in TurnStoreResponses : StoreSettle(s, resp)
    \/ \E taskId \in TaskIds : EmitAfterAssistantResponseProcessed(taskId)
    \/ handleAfterAssistantResponseProcessed
    \/ \E taskId \in TaskIds, content \in UserContents : EmitBeforeUserMessageEnrichment(taskId, content)
    \/ handleBeforeUserMessageEnrichment
    \/ \E resp \in TurnEnrichResponses : EnrichSettle(resp)

TurnSpec == Init /\ [][TurnNext]_vars

\* ClientSpec: every operation of the memory client against every response
\* of the service, over a transcript that does not grow
ClientNext ==
    \/ \E r \in Registries : RegistryChange(r)
    \/ TurnAbandoned
    \/ syncHistory
    \/ \E s \in Slots, resp \in IndexResponses : IndexSettle(s, resp)
    \/ \E s \in Slots, resp \in StoreResponses \cup {NoResponse} : StoreSettle(s, resp)
    \/ \E taskId \in TaskIds : EmitAfterAssistantResponseProcessed(taskId)
    \/ handleAfterAssistantResponseProcessed
    \/ \E taskId \in TaskIds, content \in ClientUserContents : EmitBeforeUserMessageEnrichment(taskId, content)
    \/ handleBeforeUserMessageEnrichment
    \/ \E resp \in EnrichResponses : EnrichSettle(resp)
    \/ getCoreIdentity
    \/ \E resp \in IdentityResponses : IdentitySettle(resp)
    \/ IdentityTaken

ClientSpec == Init /\ [][ClientNext]_vars

\* ------------------------------------------------------------ properties
\* k is the index of an assistant message whose predecessor is a user message
IsPairAt(h, k) ==
    /\ k >= 1
    /\ k < Len(h)
    /\ At(h, k).role = "assistant"
    /\ At(h, k - 1).role = "user"

\* message j belongs to no well-formed user-then-assistant pair
Unpaired(h, j) ==
    /\ ~IsPairAt(h, j)
    /\ ~IsPairAt(h, j + 1)

RECURSIVE PairsFrom(_, _)
\* the user indices of the pairs a pass starting its scan at index from attempts
PairsFrom(h, from) ==
    LET i == NextPair(h, from)
    IN  IF i = -1 THEN {} ELSE {i} \cup PairsFrom(h, i + 2)

NoPassRunning == \A s \in Slots : ~Busy(sync[s])

\* the text holds a [Recalled Memories] ... [/Recalled Memories] block
HasRecallBlock(t) ==
    \E p \in 1..Len(t) : \E q \in 1..Len(t) : p < q /\ t[p] = RecallOpen /\ t[q] = RecallClose

\* the remote call ended in one of: rejection, missing or empty content array,
\* non-text first block, unparseable JSON, JSON null, success false
FailureOutcome(resp) ==
    \/ resp.shape \in NonEnvelopeShapes
    \/ resp.shape = "object" /\ resp.success = "false"

\* C1: over an append-only transcript the cursor never decreases, and every
\* value it takes other than -1 is the index of an assistant message whose
\* immediate predecessor is a user message.
C1_CursorMonotoneOnPairs ==
    [][/\ lastStoredMessageIndex' >= lastStoredMessageIndex
       /\ lastStoredMessageIndex' # -1 =>
             IsPairAt(apiConversationHistory', lastStoredMessageIndex')]_vars

\* C2 as stated: the cursor never moves past an unpaired message, so every
\* message that belongs to no user-then-assistant pair keeps an index greater
\* than the cursor.
C2_NeverPastUnpaired ==
    \A j \in 0..(Len(apiConversationHistory) - 1) :
        Unpaired(apiConversationHistory, j) => j > lastStoredMessageIndex

\* C2 amended: the cursor only ever rests on the assistant message of a
\* well-formed pair, every store a pass awaits is for such a pair, and a user
\* message at the end of the transcript (the only message that can still gain
\* a partner) stays beyond the cursor; an unpaired message that is followed
\* by a pair is passed over.
C2_CursorRestsOnPairs ==
    /\ lastStoredMessageIndex # -1 => IsPairAt(apiConversationHistory, lastStoredMessageIndex)
    /\ \A s \in Slots :
          sync[s].pc = "awaitStore" => IsPairAt(apiConversationHistory, sync[s].i + 1)
    /\ \A j \in 0..(Len(apiConversationHistory) - 1) :
          (j = Len(apiConversationHistory) - 1 /\ At(apiConversationHistory, j).role = "user")
             => j > lastStoredMessageIndex

\* C2 witness: the cursor has advanced over a pair and over an unpaired
\* message before it, while a user message at the end awaits its reply
C2_PassedOverUnpaired ==
    /\ lastStoredMessageIndex >= 1
    /\ \E j \in 0..lastStoredMessageIndex : Unpaired(apiConversationHistory, j)
    /\ At(apiConversationHistory, Len(apiConversationHistory) - 1).role = "user"

\* C3: at-least-once delivery.  When no pass is running, every pair whose
\* latest store attempt failed is among the pairs the next syncHistory()
\* pass attempts.
C3_FailedPairRetried ==
    NoPassRunning =>
        \A k \in failedLast :
            (k - 1) \in PairsFrom(apiConversationHistory, lastStoredMessageIndex + 1)

\* C4: the cursor marks only confirmed stores: whenever it is k >= 0, a
\* store_exchange call for the pair (k-1, k) was answered with a success
\* envelope.
C4_CursorOnlyConfirmed ==
    lastStoredMessageIndex >= 0 => lastStoredMessageIndex \in confirmed

\* C5: handling an afterAssistantResponseProcessed event of the owning task,
\* with the service available and the exchange text non-empty, issues the
\* store of that exchange: the handler leaves a remote operation of its own
\* pending (the store itself, or the pass that performs it).
C5_StoreAfterEveryTurn ==
    [][(/\ afterEvent = OwnTaskId
        /\ afterEvent' = "none"
        /\ isAvailable(servers)
        /\ storeDecision(servers, EventUserMessage, EventAssistantMessage) = "sent")
       => \E s \in Slots : ~Busy(sync[s]) /\ Busy(sync'[s])]_vars

\* C6: no store_exchange request carries userMessage or assistantResponse
\* text that contains a [Recalled Memories] ... [/Recalled Memories] block.
C6_NoRecallBlockStored ==
    \A s \in Slots :
        (sync[s].pc = "awaitStore" /\ sync[s].sent = "sent") =>
            LET a == mcpArgs(At(apiConversationHistory, sync[s].i),
                             At(apiConversationHistory, sync[s].i + 1))
            IN  ~HasRecallBlock(a.userMessage) /\ ~HasRecallBlock(a.assistantResponse)

\* C7: taskId isolation.  Handling an event whose taskId differs from the
\* owning task's starts no remote operation: no pass (get_last_chunk_index,
\* store_exchange) begins, no enrich_context call is awaited and the payload
\* is left as it was; an awaited enrich_context call belongs to the own task.
C7_TaskIdIsolation ==
    [][/\ (afterEvent \notin {"none", OwnTaskId} => sync' = sync)
       /\ (enrichment.pc = "emitted" /\ enrichment.taskId # OwnTaskId)
             => /\ sync' = sync
                /\ enrichment'.pc = "settled"
                /\ enrichment'.userContent = enrichment.userContent
       /\ enrichment'.pc = "awaitEnrich" => enrichment'.taskId = OwnTaskId]_vars

\* C7 witness: with the service available, an enrichment event of another
\* task has been handled and a storage event of another task, whose
\* assistant message carries the completion signal, is being handled
C7_ForeignEventsHandled ==
    /\ isAvailable(servers)
    /\ enrichment.pc = "settled"
    /\ enrichment.taskId = OtherTaskId
    /\ enrichment.userContent # <<>>
    /\ afterEvent = OtherTaskId
    /\ Includes(derivedText(EventAssistantMessage), CompletionOpen)

\* C8: availability gating.  An enrichment handled while the service is
\* unavailable resolves with [] and awaits no call; a store begun while the
\* service is unavailable sends no call, and its settling confirms nothing.
\* The registry is read at each operation, so a service lost after the
\* index call of a pass gates the stores of that pass.
C8_AvailabilityGating ==
    [][/\ (enrichment.pc = "emitted" /\ ~isAvailable(servers))
             => /\ enrichment'.pc = "settled"
                /\ enrichment'.status = "resolved"
                /\ enrichment'.result = <<>>
       /\ \A s \in Slots :
             (sync'[s].pc = "awaitStore" /\ sync'[s] # sync[s] /\ ~isAvailable(servers))
                => sync'[s].sent = "unavailable"
       /\ \A s \in Slots :
             (sync[s].pc = "awaitStore" /\ sync[s].sent = "unavailable" /\ sync'[s] # sync[s])
                => confirmed' = confirmed]_vars

\* C8 witness: a pass whose index call was made while the service was
\* available reached a pair after the service was lost: the store is gated
C8_GatedStore ==
    /\ ~isAvailable(servers)
    /\ \E s \in Slots : sync[s].pc = "awaitStore" /\ sync[s].sent = "unavailable"

\* C9: no memory failure propagates.  Whatever the remote call's outcome
\* (rejection, missing or empty content array, non-text first block,
\* unparseable JSON, JSON null, success false), no syncHistory pass rejects,
\* getCoreIdentity resolves with null and the registered enrichment promise
\* resolves with no memories.
C9_NoFailurePropagates ==
    /\ rejected = "none"
    /\ identity.pc = "settled" =>
          /\ identity.status = "resolved"
          /\ FailureOutcome(identity.resp) => identity.result = "null"
    /\ (enrichment.pc = "settled" /\ FailureOutcome(enrichment.resp)) =>
          /\ enrichment.status = "resolved"
          /\ enrichment.result = <<>>

\* C9 witness: getCoreIdentity has settled on a JSON null response and an
\* enrichment promise has settled on a rejected call
C9_FailuresAbsorbed ==
    /\ identity.pc = "settled"
    /\ identity.resp.shape = "jsonNull"
    /\ enrichment.pc = "settled"
    /\ enrichment.resp.shape = "reject"

\* C10: enrichContext returns the recalled memories only when the envelope's
\* success is exactly true; an envelope whose success is false, absent or
\* another truthy value yields [].
C10_StrictSuccess ==
    (/\ enrichment.pc = "settled"
     /\ enrichment.resp.shape = "object"
     /\ enrichment.resp.success # "true")
    => enrichment.result = <<>>

\* the items are well-formed memory items
WellFormed(items) == \A k \in 1..Len(items) : ~items[k].isNull

\* C11 as stated: when enrichContext returns a non-empty result, once the
\* registered promise has settled userContent is the recall block followed
\* by all original content blocks, unmodified and in their original order.
C11_RecallThenOriginal ==
    (/\ enrichment.pc = "settled"
     /\ enrichment.result # <<>>
     /\ WellFormed(enrichment.result))
    => enrichment.userContent = <<memoryContextBlock(enrichment.result)>> \o enrichment.original

\* C11 amended: when enrichContext returns a non-empty list of memory items,
\* once the registered promise has settled userContent is one text block,
\* the recall block, at index 0, followed in their original order by the
\* original blocks other than the text blocks that start with the recall
\* marker, which the handler drops as stale.
C11_RecallThenFreshOriginal ==
    (/\ enrichment.pc = "settled"
     /\ enrichment.result # <<>>
     /\ WellFormed(enrichment.result))
    => /\ enrichment.status = "resolved"
       /\ enrichment.userContent[1].type = "text"
       /\ enrichment.userContent =
             <<memoryContextBlock(enrichment.result)>> \o filterStale(enrichment.original)

\* C11 witness: two memories were prepended to a payload of an image, a stale
\* recall block and a text block
C11_EnrichedMixedPayload ==
    /\ enrichment.pc = "settled"
    /\ Len(enrichment.result) = 2
    /\ enrichment.original = StaleMixedUserContent
    /\ Len(enrichment.userContent) = 3

\* C12: handling an afterAssistantResponseProcessed event of the owning task
\* calls syncHistory() exactly when the assistant message's derived text
\* contains the completion marker: with the marker a new pass begins with its
\* get_last_chunk_index call (none if the availability gate of syncHistory
\* closes), without the marker the passes are left as they were.
C12_CompletionTriggersSync ==
    [][(afterEvent = OwnTaskId /\ afterEvent' = "none")
       => IF Includes(derivedText(EventAssistantMessage), CompletionOpen)
          THEN IF isAvailable(servers)
               THEN \E s \in Slots :
                       /\ ~Busy(sync[s])
                       /\ sync'[s].pc = "awaitIndex"
                       /\ \A t \in Slots \ {s} : sync'[t] = sync[t]
               ELSE sync' = sync
          ELSE sync' = sync]_vars

\* C12 witness: an event of the owning task without the completion marker is
\* being handled while the service is available and the cursor lies before
\* the event's exchange
C12_TurnWithoutCompletion ==
    /\ afterEvent = OwnTaskId
    /\ isAvailable(servers)
    /\ ~Includes(derivedText(EventAssistantMessage), CompletionOpen)
    /\ lastStoredMessageIndex < Len(apiConversationHistory) - 1

\* C13: a failing store attempt does not abort the pass.  Whenever the store
\* a pass awaits settles, with whatever outcome, and a well-formed pair lies
\* later in the transcript, the pass goes on to attempt the nearest such pair.
C13_FailureDoesNotAbortPass ==
    [][\A s \in Slots :
          (/\ sync[s].pc = "awaitStore"
           /\ sync'[s] # sync[s]
           /\ \E k \in (sync[s].i + 3)..(Len(apiConversationHistory) - 1) :
                 IsPairAt(apiConversationHistory, k))
          => /\ sync'[s].pc = "awaitStore"
             /\ sync'[s].i > sync[s].i + 1
             /\ IsPairAt(apiConversationHistory, sync'[s].i + 1)
             /\ \A k \in (sync[s].i + 3)..sync'[s].i : ~IsPairAt(apiConversationHistory, k)]_vars

\* C13 witness: the store of pair (0, 1) has failed and a pass awaits the
\* store of pair (2, 3)
C13_LaterPairAfterFailure ==
    /\ 1 \in failedLast
    /\ lastStoredMessageIndex = 1
    /\ \E s \in Slots : sync[s].pc = "awaitStore" /\ sync[s].i = 2 /\ sync[s].sent = "sent"

\* C14: the sanitizer is idempotent: sanitizing its own output changes nothing.
C14_SanitizerIdempotent ==
    probe.op = "cleanMessageContent" => cleanMessageContent(probe.cleaned) = probe.cleaned

\* the tokens of a recall block: its markers and what lies between them
RecallBlockTokens == {RecallOpen, RecallClose, RecallHead, RecallTail, MemWord, "Memory-header", "---"}

\* C15: the recall block the enrichment handler builds for a non-empty list
\* of memories, sanitized alone or followed by user text, leaves nothing of
\* the block: neither marker nor memory text.
C15_RecallBlockRemoved ==
    (probe.op = "cleanMessageContent" /\ probe.text \in RecallTexts)
    => \A k \in 1..Len(probe.cleaned) : probe.cleaned[k] \notin RecallBlockTokens

C17_EmptyQueryNotSent ==
    [][/\ (/\ enrichment.pc = "emitted"
           /\ enrichment.taskId = OwnTaskId
           /\ userQuery(filterStale(enrichment.userContent)) = <<>>)
          => /\ enrichment'.pc = "settled"
             /\ enrichment'.status = "resolved"
             /\ enrichment'.result = <<>>
             /\ enrichment'.resp = NoResponse
             /\ enrichment'.userContent = filterStale(enrichment.userContent)
       /\ enrichment'.pc = "awaitEnrich" => userQuery(enrichment'.userContent) # <<>>]_vars

\* C17 witness: with the service available, a payload whose only text is an
\* environment-details block has been handled without a call
C17_EmptyQueryHandled ==
    /\ isAvailable(servers)
    /\ enrichment.pc = "settled"
    /\ enrichment.taskId = OwnTaskId
    /\ enrichment.original = EnvOnlyContent
    /\ enrichment.userContent = EnvOnlyContent

\* C18: no store_exchange call is made for an exchange whose user text and
\* assistant text are both empty after sanitization.
C18_EmptyExchangeNotSent ==
    \A s \in Slots :
        (sync[s].pc = "awaitStore" /\ sync[s].sent = "sent") =>
            ~(/\ cleanMessageContent(derivedText(At(apiConversationHistory, sync[s].i))) = <<>>
              /\ cleanMessageContent(derivedText(At(apiConversationHistory, sync[s].i + 1))) = <<>>)

\* C19: non-blocking enrichment.  The emission ends with the handler's
\* synchronous step, which leaves the promise pending on enrich_context or
\* settled without a call and adds no recall block; while the call is pending
\* the payload is not touched; the recall block is added in the step that
\* settles the promise; a settled promise's payload is not changed again.
C19_EnrichmentNonBlocking ==
    [][/\ enrichment.pc = "emitted"
          => /\ enrichment'.pc \in {"awaitEnrich", "settled"}
             /\ enrichment'.resp = NoResponse
             /\ enrichment'.userContent
                   \in {enrichment.userContent, filterStale(enrichment.userContent)}
       /\ (enrichment.pc = "awaitEnrich" /\ enrichment' # enrichment)
          => enrichment'.pc = "settled"
       /\ (enrichment.pc = "settled" /\ enrichment'.pc = "settled")
          => enrichment' = enrichment]_vars

\* C19 witness: the emission is over and the enrich_context call still
\* pending while a getCoreIdentity call is in flight
C19_PendingAfterEmission ==
    /\ enrichment.pc = "awaitEnrich"
    /\ afterEvent = "none"
    /\ identity.pc = "await"

\* the envelope reports success with a non-null object identity
IdentityEnvelope(resp) ==
    /\ resp.shape = "object"
    /\ Truthy(resp)
    /\ resp.data = "object"

QueryTextsOf(b) ==
    IF b.type = "text" THEN <<b.text>>
    ELSE IF b.type = "tool_result" /\ b.kind = "string" THEN <<b.text>>
    ELSE IF b.type = "tool_result" /\ b.kind = "blocks"
    THEN [k \in 1..Cardinality({j \in 1..Len(b.inner) : b.inner[j].type = "text"}) |->
             b.inner[CHOOSE j \in 1..Len(b.inner) :
                        /\ b.inner[j].type = "text"
                        /\ Cardinality({l \in 1..j : b.inner[l].type = "text"}) = k].text]
    ELSE <<>>

RECURSIVE QueryTexts(_)
\* the contributed texts of all blocks, in block order
QueryTexts(blocks) ==
    IF blocks = <<>> THEN <<>> ELSE QueryTextsOf(Head(blocks)) \o QueryTexts(Tail(blocks))

RECURSIVE OffsetOf(_, _)
\* where the k-th text starts in the concatenation with two-newline separators
OffsetOf(texts, k) ==
    IF k = 1 THEN 0 ELSE OffsetOf(texts, k - 1) + Len(texts[k - 1]) + 2

\* raw is texts[1] \n\n texts[2] \n\n ... texts[n], and nothing else
IsJoinOf(raw, texts) ==
    LET n == Len(texts)
    IN  IF n = 0 THEN raw = <<>>
        ELSE /\ Len(raw) = OffsetOf(texts, n) + Len(texts[n])
             /\ \A k \in 1..n :
                   /\ SubSeq(raw, OffsetOf(texts, k) + 1, OffsetOf(texts, k) + Len(texts[k])) = texts[k]
                   /\ k > 1 => /\ raw[OffsetOf(texts, k) - 1] = NL
                               /\ raw[OffsetOf(texts, k)] = NL

\* C21: query derivation.  The query of every enrich_context call is the
\* sanitized form of the concatenation, in block order and with exactly two
\* newlines between neighbours, of the texts of the text blocks and of the
\* tool_result blocks' nested texts of the content the handler processes;
\* other blocks contribute no text and no separator.
C21_QueryDerivation ==
    enrichment.pc = "awaitEnrich" =>
        /\ IsJoinOf(rawUserQuery(enrichment.userContent), QueryTexts(enrichment.userContent))
        /\ enrichment.query = cleanMessageContent(rawUserQuery(enrichment.userContent))

\* C21 witness: a call is pending for a payload of a text block, an image
\* and a tool_result with nested blocks; the query has the four words of the
\* three texts and two separators
C21_QueryOverMixedBlocks ==
    /\ enrichment.pc = "awaitEnrich"
    /\ enrichment.userContent =
          <<TextBlock(<<Word>>), ImageBlock,
            ToolResultBlocks(<<TextBlock(<<"u">>), ImageBlock, TextBlock(<<"v">>)>>)>>
    /\ enrichment.query = <<Word, NL, NL, "u", NL, NL, "v">>

\* C22: when syncHistory passes overlap at their remote calls, no step of
\* any of them sets the cursor to a smaller index than it already holds.
C22_OverlapNeverBackwards ==
    [][(\E s \in Slots : \E t \in Slots : s # t /\ Busy(sync[s]) /\ Busy(sync[t]))
          => lastStoredMessageIndex' >= lastStoredMessageIndex]_vars

\* the number of blocks of the content that begin with the recall marker
RecallBlocks(blocks) ==
    Cardinality({k \in 1..Len(blocks) :
                    /\ blocks[k].type = "text"
                    /\ blocks[k].text # <<>>
                    /\ Head(blocks[k].text) = RecallOpen})

\* C23: once every promise registered for a payload has settled, whether
\* the event was delivered once, again after the first enrichment, or twice
\* with overlapping handling, the payload holds at most one recall block.
C23_AtMostOneRecallBlock ==
    (/\ enrichment.pc = "settled"
     /\ enrichment.redelivery.pc \in {"idle", "settled"})
        => RecallBlocks(enrichment.userContent) <= 1

\* C24: the handler changes userContent in place.  payload.userContent is
\* never bound to another array, and once the handler's promise has settled
\* the array the host supplied holds the content that payload.userContent holds.
C24_MutatedInPlace ==
    /\ ~enrichment.rebound
    /\ enrichment.pc = "settled" => enrichment.original = enrichment.userContent

\* C25: the remote chunk index is only a hint.  Whatever the outcome of the
\* get_last_chunk_index call, the pass goes on to the first pair after the
\* cursor when there is one, and ends without a store attempt when there is none.
C25_IndexOutcomeIrrelevant ==
    [][\A s \in Slots :
          (sync[s].pc = "awaitIndex" /\ sync'[s].pc # "awaitIndex") =>
             LET i == NextPair(apiConversationHistory, lastStoredMessageIndex + 1)
             IN  IF i = -1 THEN sync'[s].pc = "idle"
                 ELSE sync'[s].pc = "awaitStore" /\ sync'[s].i = i]_vars

\* C26: within one pass the store attempts are issued in ascending transcript
\* order, one at a time, and the cursor is set to a pair's assistant index in
\* the step in which that pair's attempt settles, before the pass begins its
\* next attempt; nothing else sets the cursor.
C26_OneAtATimeAscending ==
    [][/\ \A s \in Slots :
             (sync[s].pc = "awaitStore" /\ sync'[s] # sync[s]) =>
                /\ lastStoredMessageIndex' = sync[s].i + 1
                /\ sync'[s].pc \in {"idle", "awaitStore"}
                /\ sync'[s].pc = "awaitStore" => sync'[s].i >= sync[s].i + 2
       /\ \A s \in Slots :
             (sync[s].pc # "awaitStore" /\ sync'[s].pc = "awaitStore") =>
                /\ sync[s].pc = "awaitIndex"
                /\ sync'[s].i > lastStoredMessageIndex
                /\ lastStoredMessageIndex' = lastStoredMessageIndex
       /\ lastStoredMessageIndex' # lastStoredMessageIndex =>
             \E s \in Slots : sync[s].pc = "awaitStore" /\ sync'[s] # sync[s]]_vars

\* C26 witness: a pass has set the cursor to 1 after the attempt for pair
\* (0,1) settled and now awaits its attempt for pair (2,3)
C26_SecondAttemptAfterCursor ==
    /\ lastStoredMessageIndex = 1
    /\ \E s \in Slots : sync[s].pc = "awaitStore" /\ sync[s].i = 2
    /\ \A s \in Slots : sync[s].pc # "awaitStore" => sync[s].pc = "idle"
    /\ Cardinality({s \in Slots : Busy(sync[s])}) = 1

\* C27: construction-time sync.  In the state the constructor leaves, the
\* cursor is -1; with the service unavailable no pass is running and no call
\* is pending; with the service available exactly one pass is running, and
\* when its first remote call has settled it attempts the first
\* user/assistant pair of the existing transcript, scanning from index 0.
C27_ConstructionPass ==
    [][Init =>
          /\ lastStoredMessageIndex = -1
          /\ ~isAvailable(servers) => \A s \in Slots : ~Busy(sync[s])
          /\ isAvailable(servers) =>
                /\ Cardinality({s \in Slots : Busy(sync[s])}) = 1
                /\ sync'[1] # sync[1] =>
                      LET i == NextPair(apiConversationHistory, 0)
                      IN  IF i = -1 THEN sync'[1].pc = "idle"
                          ELSE sync'[1].pc = "awaitStore" /\ sync'[1].i = i]_vars

\* pass s is the only pass in flight
Alone(s) == \A t \in Slots : t # s => ~Busy(sync[t])

\* C28: a pass that overlaps no other, with the service available, attempts
\* only pairs after the cursor, and when it ends no user/assistant pair is
\* left after the cursor, so that a following pass over the same transcript
\* finds nothing to store.
C28_PassLeavesNothingBehind ==
    [][\A s \in Slots :
          (Alone(s) /\ isAvailable(servers)) =>
             /\ (sync'[s].pc = "awaitStore" /\ sync'[s] # sync[s])
                => sync'[s].i > lastStoredMessageIndex'
             /\ (Busy(sync[s]) /\ ~Busy(sync'[s]))
                => NextPair(apiConversationHistory', lastStoredMessageIndex' + 1) = -1]_vars

\* C29: while the service is unavailable no pass begins: a syncHistory()
\* invocation leaves every idle slot idle, so it makes no
\* get_last_chunk_index and no store_exchange call; and with no pass in
\* flight the cursor keeps its value.
C29_UnavailableSyncIsNoOp ==
    [][/\ ~isAvailable(servers) =>
             \A s \in Slots : ~Busy(sync[s]) => sync'[s] = sync[s]
       /\ (~isAvailable(servers) /\ NoPassRunning) =>
             lastStoredMessageIndex' = lastStoredMessageIndex]_vars

\* C29 witness: the service is unavailable, no pass is running, and the pair
\* (2,3) after the cursor is still unsent
C29_UnsentPairWhileUnavailable ==
    /\ ~isAvailable(servers)
    /\ NoPassRunning
    /\ lastStoredMessageIndex = 1
    /\ NextPair(apiConversationHistory, lastStoredMessageIndex + 1) = 2

\* C30: an event of another task is ignored entirely.  Handling it leaves
\* payload.userContent as it was, recall-marked blocks included, appends
\* nothing to payload.promises, starts no pass and leaves the cursor unchanged.
C30_ForeignEventLeavesNoTrace ==
    [][/\ (enrichment.pc = "emitted" /\ enrichment.taskId # OwnTaskId)
          => /\ enrichment'.userContent = enrichment.userContent
             /\ enrichment'.original = enrichment.original
             /\ enrichment'.promises = enrichment.promises
             /\ sync' = sync
             /\ lastStoredMessageIndex' = lastStoredMessageIndex
       /\ (afterEvent # "none" /\ afterEvent # OwnTaskId)
          => /\ sync' = sync
             /\ lastStoredMessageIndex' = lastStoredMessageIndex]_vars

\* the enrichment got nothing from the memory: no call was made, the call
\* was rejected, the response was malformed or unsuccessful, or the result
\* was not a non-empty array
EnrichFailure(resp) ==
    \/ resp = NoResponse
    \/ resp.shape \in NonEnvelopeShapes
    \/ resp.success \in {"false", "absent"}
    \/ resp.data \in {"array0", "notArray"}

\* the blocks of the content that are not recall-marked text blocks, in order
WithoutRecallBlocks(blocks) ==
    SelectSeq(blocks, LAMBDA b : ~(b.type = "text" /\ Trim(b.text) # <<>>
                                   /\ Head(Trim(b.text)) = RecallOpen))

\* C31 (as stated): after a failed enrichment the payload holds the same
\* blocks in the same order as before the event.
C31_FailureLeavesContent ==
    (/\ enrichment.pc = "settled"
     /\ enrichment.taskId = OwnTaskId
     /\ EnrichFailure(enrichment.resp))
        => enrichment.userContent = enrichment.original

\* C31 (amended): after a failed enrichment the promise is resolved and the
\* payload holds the blocks it had before the event, in the same order,
\* without the recall-marked text blocks; no block is added.
C31_FailureLeavesContentButStale ==
    (/\ enrichment.pc = "settled"
     /\ enrichment.taskId = OwnTaskId
     /\ EnrichFailure(enrichment.resp))
        => /\ enrichment.status = "resolved"
           /\ enrichment.userContent = WithoutRecallBlocks(enrichment.original)

\* C31 witness: the enrich_context call was rejected for a payload that
\* carried a stale recall block, and the payload has lost that block
C31_RejectedCallOnStalePayload ==
    /\ enrichment.pc = "settled"
    /\ enrichment.taskId = OwnTaskId
    /\ enrichment.resp.shape = "reject"
    /\ enrichment.original = StaleMixedUserContent
    /\ enrichment.userContent = <<ImageBlock, TextBlock(<<Word>>)>>

\* the step is one of the integration's: a pass starts, continues or ends,
\* a handler runs, or a call of the enrichment settles
IntegrationStep ==
    \/ sync' # sync
    \/ lastStoredMessageIndex' # lastStoredMessageIndex
    \/ afterEvent # "none" /\ afterEvent' = "none"
    \/ enrichment.pc \in {"emitted", "awaitEnrich"} /\ enrichment' # enrichment

\* C32: the integration only reads the host transcript.  No step of a pass,
\* of a handler or of a remote operation changes apiConversationHistory (and
\* with it the message objects that the event payloads refer to); the
\* transcript changes only when the host appends a message.
C32_TranscriptReadOnly ==
    [][/\ IntegrationStep => apiConversationHistory' = apiConversationHistory
       /\ apiConversationHistory' # apiConversationHistory =>
             /\ Len(apiConversationHistory') = Len(apiConversationHistory) + 1
             /\ SubSeq(apiConversationHistory', 1, Len(apiConversationHistory))
                   = apiConversationHistory]_vars

\* C32 witness: after a completion event a pass has stored the pair (0,1),
\* an enrichment has changed the outgoing content, and the transcript still
\* holds the two messages it had
C32_TranscriptKeptThroughTurn ==
    /\ apiConversationHistory = <<UserPlain, AssistantDone>>
    /\ lastStoredMessageIndex = 1
    /\ enrichment.pc = "settled"
    /\ enrichment.userContent = EnrichedUserContent
    /\ enrichment.original = PlainUserContent

\* the text of a message by the shared extraction rule: the string, or the
\* texts of the text blocks and of the tool_result blocks' nested content, in
\* order, with two newlines between neighbours
ExtractedText(msg) ==
    IF msg.content.kind = "string" THEN msg.content.text
    ELSE JoinWith(QueryTexts(msg.content.blocks), <<NL, NL>>)

\* C33: the enrich_context request is { query, conversationContext, topK: 3 };
\* conversationContext has one "role: text" line, joined by single newlines,
\* for each of the last 6 entries of the supplied history, in order, the
\* text being the sanitized derived text of the entry; earlier entries leave
\* no trace in the request.
C33_ContextOfLastSix ==
    probe.op = "enrichArgs" =>
        LET h == probe.history
            n == Len(h)
            last == IF n <= 6 THEN h ELSE SubSeq(h, n - 5, n)
        IN  /\ probe.args.query = <<Word>>
            /\ probe.args.topK = 3
            /\ probe.args.conversationContext =
                  JoinWith([k \in 1..Len(last) |->
                               <<last[k].role, RoleSeparator>>
                               \o cleanMessageContent(ExtractedText(last[k]))],
                           <<NL>>)

\* C34: the user text that storeExchange derives from a message with block
\* content is the in-order concatenation, two newlines between neighbours,
\* of the text blocks and of the text nested in tool_result blocks; a message
\* whose only text is inside tool_result blocks yields non-empty text.
C34_StorageTextByExtractionRule ==
    (probe.op = "mcpArgs" /\ probe.stored # <<>>) =>
        LET userMessage == probe.messages[1]
        IN  (/\ userMessage.content.kind = "blocks"
             /\ IndexFrom(ExtractedText(userMessage), UserMessageOpen, 1) = 0)
            => probe.stored[1].userMessage = ExtractedText(userMessage)

\* the delimited user_message section of a text: <<>> if there is none,
\* else the one-element sequence holding its inner text
UserMessageSection(text) ==
    LET p == IndexFrom(text, UserMessageOpen, 1)
        q == IF p = 0 THEN 0 ELSE IndexFrom(text, UserMessageClose, p + 1)
    IN  IF p # 0 /\ q # 0 THEN <<Trim(SubSeq(text, p + 1, q - 1))>> ELSE <<>>

\* C35: when the derived user text has a delimited user_message section the
\* userMessage sent to store_exchange is that section's inner text, also when
\* the inner text is empty; without a section it is the full derived text.
C35_UserMessageSectionOnly ==
    probe.op = "mcpArgs" =>
        LET text == derivedText(probe.messages[1])
            section == UserMessageSection(text)
            expected == IF section # <<>> THEN section[1] ELSE text
            sent == expected # <<>> \/ cleanMessageContent(derivedText(probe.messages[2])) # <<>>
        IN  /\ sent <=> probe.stored # <<>>
            /\ sent => probe.stored[1].userMessage = expected

\* C37: in every reachable state the cursor is inside the transcript:
\* -1 <= lastStoredMessageIndex < length of apiConversationHistory (or -1 for
\* an empty transcript), also when the scan ended on a user message that has
\* no assistant message after it.
C37_CursorInsideTranscript ==
    /\ -1 <= lastStoredMessageIndex
    /\ lastStoredMessageIndex < Len(apiConversationHistory)
    /\ lastStoredMessageIndex # -1 => At(apiConversationHistory, lastStoredMessageIndex).role = "assistant"

\* a pass has processed a pair and ended on a trailing user message
C37_ScanEndedOnLoneUser ==
    /\ \A s \in Slots : ~Busy(sync[s])
    /\ Len(apiConversationHistory) >= 3
    /\ At(apiConversationHistory, Len(apiConversationHistory) - 1).role = "user"
    /\ lastStoredMessageIndex = Len(apiConversationHistory) - 2

\* C36: every syncHistory() invocation terminates: when every remote call
\* settles and finitely many messages are appended, a running pass eventually
\* ends with its promise resolved, also when the transcript grows between
\* its store attempts.
C36_PassTerminates ==
    /\ \A s \in Slots : Busy(sync[s]) ~> ~Busy(sync[s])
    /\ [](rejected # "syncHistory")

\* a pass awaits the store of a pair that was appended after construction
C36_PassReachedAppendedPair ==
    \E s \in Slots : sync[s].pc = "awaitStore" /\ sync[s].i = 2 /\ lastStoredMessageIndex = 1

====
